---- MODULE Spec2Model ----
(***************************************************************************)
(* A model of LoadBusTimetable.py: the stitching of a trip's stops into    *)
(* route legs (find_route_legs), the registry of public-transport lines    *)
(* keyed by name (get_timetable, create_pt_line, add_departure), the       *)
(* dwell-time pass and the error log.                                      *)
(*                                                                         *)
(* Python values are modelled as follows.  A stop is the tuple             *)
(* <<eid, time>>; a time "HH:MM:SS" is the tuple <<hh, mm, ss>>; a file    *)
(* name is the sequence of its characters; a formatted message is the      *)
(* record of the values formatted into it; a network section is its id.    *)
(* The road network is a ring of NumLinks sections; the shortest-path      *)
(* manager is an oracle over it.                                           *)
(***************************************************************************)
EXTENDS Integers, Sequences, FiniteSets, TLC

\* ------------------------------------------------------------------ bounds
\* Sections of the modelled network (a ring).
NumLinks == 24
\* Longest list of stops handed to find_route_legs in SpecStitch.
MaxStops == 4
\* Most data rows (trips) of one csv file in Spec.
MaxRows == 2

\* --------------------------------------------------------------- constants
\* BUS_ID, the catalog id of the vehicle of every departure.
BUS_ID == 9
\* The path length above which find_route_legs logs a warning.
PathLenWarn == 20

None == "None"

VARIABLES
    \* the main script
    listing,        \* os.listdir(CSV_PATH)
    csv_files,      \* the list of csv files the main loop walks
    nrows,          \* per csv file, the number of data rows after the header
    fi,             \* position of the main loop in csv_files (1-based)
    rowIdx,         \* position of get_timetable's loop in the file (0 = header)
    pc,             \* control point of the script
    route_legs,     \* the legs of the current row still to be processed
    lines,          \* PT_FOLDER: the public lines of the catalog, in creation order
    nextId,         \* the id GKSystem.newObject gives the next object
    error_log,      \* the shared list of warnings and errors
    logFile,        \* what output_errors wrote
    tripsRead,      \* history: the <<file, row>> pairs get_timetable has read
    processedLegs,  \* history: every leg the leg loop has taken, in order
    \* find_route_legs on its own
    sStops,         \* its argument
    si,             \* the loop index (1-based)
    route,          \* the working route
    route_stops,    \* the working stop buffer
    legs,           \* the legs finalized so far
    answers,        \* history: what sp_manager.getPath did at each iteration
    spc             \* control point of find_route_legs

vars == <<listing, csv_files, nrows, fi, rowIdx, pc, route_legs, lines, nextId,
          error_log, logFile, tripsRead, processedLegs,
          sStops, si, route, route_stops, legs, answers, spc>>

mainVars == <<listing, csv_files, nrows, fi, rowIdx, pc, route_legs, lines, nextId,
              logFile, tripsRead, processedLegs>>

stitchVars == <<sStops, si, route, route_stops, legs, answers, spc>>

\* ------------------------------------------------------------- the catalog
\* The stops of the Aimsun model, by external id.
ModelStops == {"A", "B", "C", "Bus Station"}

\* model.getCatalog().findObjectByExternalId(eid)
FindObjectByExternalId(eid) == IF eid \in ModelStops THEN eid ELSE None

\* stop_obj.getSection().getId(): the section a stop sits on.
SectionOf(eid) ==
    CASE eid = "A" -> 1
      [] eid = "B" -> 3
      [] eid = "C" -> 4
      [] eid = "Bus Station" -> NumLinks - 1

\* stop_obj.getName()
NameOf(eid) ==
    CASE eid = "A" -> "Alma Road"
      [] eid = "B" -> "Bank Street"
      [] eid = "C" -> "Castle Gate"
      [] eid = "Bus Station" -> "Bus Station"

\* ------------------------------------------------------------- the network
Links == 1..NumLinks

\* Two sections share a node: neighbours on the ring.
Adjacent(a, b) == ((a - b) % NumLinks) \in {1, NumLinks - 1}

\* The path from a to b in the direction of increasing ids, both ends included.
CW(a, b) == [k \in 1..(((b - a) % NumLinks) + 1) |-> ((a - 1 + (k - 1)) % NumLinks) + 1]

\* The path from a to b in the other direction, both ends included.
CCW(a, b) == [k \in 1..(((a - b) % NumLinks) + 1) |-> ((a - 1 - (k - 1)) % NumLinks) + 1]

\* A path that names its first section twice.
Stutter(p) == <<p[1]>> \o p

\* What sp_manager.getPath(a, b) did: it raised, or it returned a path.
Raised == [raised |-> TRUE, path |-> <<>>]
Returned(p) == [raised |-> FALSE, path |-> p]

\* Everything getPath(a, b) may do for some network and some cost: raise,
\* return no path, or return a contiguous path from a to b.
Oracle(a, b) ==
    IF a = b
        THEN {Raised, Returned(<<>>), Returned(<<a>>), Returned(<<a, a>>)}
        ELSE {Raised, Returned(<<>>), Returned(CW(a, b)), Returned(CCW(a, b)),
              Returned(Stutter(CW(a, b)))}

\* ---------------------------------------------------------- find_route_legs
\* The warning text of line 239, as the values formatted into it.
PathLengthWarning(from, to, path_len) ==
    [kind |-> "PATH LENGTH WARNING", from |-> from, to |-> to, len |-> path_len]

InLog(log, msg) == \E k \in 1..Len(log) : log[k] = msg

LogWarningAlways(log, warning) == Append(log, warning)

\* if (warning not in error_log): error_log.append(warning)
LogWarning(log, warning) == IF InLog(log, warning) THEN log ELSE Append(log, warning)

AppendLinkAlways(r, link) == Append(r, link)

\* The body of the loop over the links of a path.
AppendLink(r, link) ==
    IF Len(r) = 0
        THEN Append(r, link)
        ELSE IF link # r[Len(r)] THEN Append(r, link) ELSE r

\* for link in path: ...
RECURSIVE ExtendRoute(_, _)
ExtendRoute(r, path) ==
    IF path = <<>> THEN r ELSE ExtendRoute(AppendLink(r, Head(path)), Tail(path))

MakeLeg(r, rs) == [Route |-> r, Stops |-> rs]

CloseLegKeepStop(st) ==
    [st EXCEPT !.legs = Append(st.legs, MakeLeg(st.route, st.route_stops)),
               !.route = <<>>,
               !.route_stops = <<st.route_stops[Len(st.route_stops)]>>]

\* The branch len(path) == 0: the leg is finalized and the buffers start anew.
CloseLeg(st) ==
    [st EXCEPT !.legs = Append(st.legs, MakeLeg(st.route, st.route_stops)),
               !.route = <<>>,
               !.route_stops = <<>>]

\* One iteration of the loop, i the 1-based index, out what getPath did.
\* st holds route, route_stops, legs and error_log.
StitchPair(st, stops, i, out) ==
    IF out.raised
        THEN st
        ELSE LET path_len == Len(out.path)
                 s1 == [st EXCEPT !.route_stops = Append(st.route_stops, stops[i])]
                 s2 == IF path_len > PathLenWarn
                         THEN [s1 EXCEPT !.error_log =
                                 LogWarning(s1.error_log,
                                     PathLengthWarning(stops[i][1], stops[i + 1][1], path_len))]
                         ELSE s1
             IN  IF path_len = 0
                     THEN CloseLeg(s2)
                     ELSE [s2 EXCEPT !.route = ExtendRoute(s2.route, out.path)]

FinishLegsNoLastStop(st, stops) ==
    [st EXCEPT !.legs = Append(st.legs, MakeLeg(st.route, st.route_stops))]

\* After the loop: the last stop joins the buffer and the last leg is finalized.
FinishLegs(st, stops) ==
    LET rs == Append(st.route_stops, stops[Len(stops)])
    IN  [st EXCEPT !.route_stops = rs,
                   !.legs = Append(st.legs, MakeLeg(st.route, rs))]

\* What getPath may do at iteration i of n: at the last iteration
\* sections[i + 1] raises IndexError inside the try.
OutcomesAt(stops, i) ==
    IF i = Len(stops)
        THEN {Raised}
        ELSE Oracle(SectionOf(stops[i][1]), SectionOf(stops[i + 1][1]))

\* The stops find_route_legs is given in SpecStitch.
StitchTime == <<8, 0, 0>>
StitchStopSet == {<<e, StitchTime>> : e \in {"A", "B", "C"}}

RECURSIVE SeqsUpTo(_, _)
SeqsUpTo(S, n) ==
    IF n = 0 THEN {<<>>}
    ELSE LET shorter == SeqsUpTo(S, n - 1)
         IN  shorter \cup {Append(s, x) : s \in {t \in shorter : Len(t) = n - 1}, x \in S}

StitchState == [route |-> route, route_stops |-> route_stops, legs |-> legs,
                error_log |-> error_log]

MainIdle ==
    /\ listing = <<>>
    /\ csv_files = <<>>
    /\ nrows = <<>>
    /\ fi = 1
    /\ rowIdx = 0
    /\ pc = "idle"
    /\ route_legs = <<>>
    /\ lines = <<>>
    /\ nextId = 1
    /\ logFile = [written |-> FALSE, count |-> 0, messages |-> <<>>]
    /\ tripsRead = {}
    /\ processedLegs = <<>>

InitStitch ==
    /\ MainIdle
    /\ error_log = <<>>
    /\ sStops \in (SeqsUpTo(StitchStopSet, MaxStops) \ {<<>>})
    /\ si = 1
    /\ route = <<>>
    /\ route_stops = <<>>
    /\ legs = <<>>
    /\ answers = <<>>
    /\ spc = "loop"

\* One iteration of the for loop of find_route_legs.
StitchStep ==
    /\ spc = "loop"
    /\ si <= Len(sStops)
    /\ \E out \in OutcomesAt(sStops, si) :
         LET st == StitchPair(StitchState, sStops, si, out)
         IN  /\ route' = st.route
             /\ route_stops' = st.route_stops
             /\ legs' = st.legs
             /\ error_log' = st.error_log
             /\ answers' = Append(answers, out)
    /\ si' = si + 1
    /\ UNCHANGED <<sStops, spc>>
    /\ UNCHANGED mainVars

\* The lines after the loop, and the return.
StitchFinish ==
    /\ spc = "loop"
    /\ si > Len(sStops)
    /\ LET st == FinishLegs(StitchState, sStops)
       IN  /\ route' = st.route
           /\ route_stops' = st.route_stops
           /\ legs' = st.legs
    /\ spc' = "done"
    /\ UNCHANGED <<sStops, si, answers, error_log>>
    /\ UNCHANGED mainVars



\* ------------------------------------------------------------ the csv input
\* File names, as sequences of characters.
F7 == <<"7", ".", "c", "s", "v">>
F7c == <<"7", "c", ".", "c", "s", "v">>
F8 == <<"8", ".", "c", "s", "v">>
Notes == <<"n", ".", "t", "x", "t">>

\* The directory listings the script may find.
DirListings == { <<F7, Notes, F7c>>, <<F7, Notes, F8>> }

\* file.endswith(".csv")
EndsWithCsv(f) ==
    /\ Len(f) >= 4
    /\ SubSeq(f, Len(f) - 3, Len(f)) = <<".", "c", "s", "v">>

\* The csv files of a listing, in listing order.
CsvFilesOf(l) == SelectSeq(l, EndsWithCsv)

\* s.strip(chars): the characters of chars are removed from both ends of s.
RECURSIVE LStrip(_, _)
LStrip(s, chars) ==
    IF s # <<>> /\ Head(s) \in chars THEN LStrip(Tail(s), chars) ELSE s

RECURSIVE RStrip(_, _)
RStrip(s, chars) ==
    IF s # <<>> /\ s[Len(s)] \in chars THEN RStrip(SubSeq(s, 1, Len(s) - 1), chars) ELSE s

Strip(s, chars) == RStrip(LStrip(s, chars), chars)

\* A token "StopId(HH:MM:SS)" of a row, and a token without its parenthesis.
Tok(eid, h, m, sec) == [eid |-> eid, time |-> <<h, m, sec>>, paren |-> TRUE]
Bare(eid) == [eid |-> eid, time |-> <<>>, paren |-> FALSE]

\* A stop id of the station, and a stop id outside the model area.
HubId == "450030204"
OutId == "X"

rowABC == << Tok("A", 8, 0, 0), Tok("B", 8, 5, 0), Tok("C", 8, 10, 0) >>
rowAC == << Tok("A", 7, 30, 0), Tok("C", 7, 50, 0) >>
rowBad == << Tok("A", 9, 0, 0), Bare("B") >>
rowHub == << Tok(HubId, 10, 0, 0), Tok(OutId, 10, 2, 0), Tok("B", 10, 5, 0),
             Tok("A", 10, 10, 0), Tok("B", 10, 15, 0) >>
rowOut == << Tok(OutId, 6, 0, 0) >>
rowCA == << Tok("C", 11, 0, 0), Tok("A", 11, 10, 0) >>


\* The data rows a csv file may hold.
RowSet == {rowABC, rowAC, rowBad, rowHub, rowOut, rowCA}

\* re.search(r'\((.*?)\)', stop) is None for a token without a parenthesis,
\* and .group(1) then raises.
ParseRaises(row) == \E k \in 1..Len(row) : ~row[k].paren

\* The list of (stop_eid, time) tuples of a row.
ParseRow(row) == [k \in 1..Len(row) |-> <<row[k].eid, row[k].time>>]

\* ----------------------------------------------------- match_stops_in_model
bus_station_ids ==
    {"450030204", "450030188", "450030189", "450030190", "450030182", "450030183",
     "450030184", "450030185", "450030186", "450030196", "450030197", "450030191",
     "450030192", "450030187", "450030194", "450030193", "450030195", "450030202",
     "450030203", "450030198", "450030199", "450030200", "450030201", "450030331"}

RECURSIVE MatchStopsInModel(_)
MatchStopsInModel(stops) ==
    IF stops = <<>> THEN <<>>
    ELSE LET stop == Head(stops)
             rest == MatchStopsInModel(Tail(stops))
         IN  IF FindObjectByExternalId(stop[1]) # None
                 THEN <<stop>> \o rest
                 ELSE IF stop[1] \in bus_station_ids
                          THEN << <<"Bus Station", stop[2]>> >> \o rest
                          ELSE rest

\* ------------------------------------------ the network of the main script
\* Pairs of sections with no path, pairs whose query raises, pairs whose
\* shortest path by distance is the long way round.
NoPathPairs == { <<3, 1>> }
FailPairs == { <<4, 1>> }
DetourPairs == { <<1, 4>> }

\* sp_manager.getPath(a, b) on the network of the main script.
GetPath(a, b) ==
    IF a = b \/ <<a, b>> \in NoPathPairs THEN Returned(<<>>)
    ELSE IF <<a, b>> \in FailPairs THEN Raised
    ELSE IF <<a, b>> \in DetourPairs THEN Returned(CCW(a, b))
    ELSE Returned(CW(a, b))

AnswerAt(stops, i) ==
    IF i = Len(stops)
        THEN Raised
        ELSE GetPath(SectionOf(stops[i][1]), SectionOf(stops[i + 1][1]))

RECURSIVE StitchFrom(_, _, _)
StitchFrom(st, stops, i) ==
    IF i > Len(stops)
        THEN FinishLegs(st, stops)
        ELSE StitchFrom(StitchPair(st, stops, i, AnswerAt(stops, i)), stops, i + 1)

\* find_route_legs(stops) with the shared error_log: the legs and the log after.
FindRouteLegs(stops, log) ==
    LET st == StitchFrom([route |-> <<>>, route_stops |-> <<>>, legs |-> <<>>,
                          error_log |-> log], stops, 1)
    IN  [legs |-> st.legs, error_log |-> st.error_log]

\* ------------------------------------------------------------ the registry
\* get_route_name: the values formatted into the name.
GetRouteName(file, first_stop, last_stop) ==
    [filename |-> Strip(file, {".", "c", "s", "v"}),
     fs_name |-> NameOf(FindObjectByExternalId(first_stop)),
     first_stop |-> first_stop,
     ls_name |-> NameOf(FindObjectByExternalId(last_stop)),
     last_stop |-> last_stop]

\* The name of the line of a leg read from file.
LegName(file, leg) == GetRouteName(file, leg.Stops[1][1], leg.Stops[Len(leg.Stops)][1])

\* QTime(h, m, s): milliseconds since midnight, -1 when invalid.
QTime(h, m, sec) ==
    IF h \in 0..23 /\ m \in 0..59 /\ sec \in 0..59
        THEN ((h * 60 + m) * 60 + sec) * 1000
        ELSE -1

\* QTime.fromString(time, "hh:mm:ss")
QTimeFromString(time) == QTime(time[1], time[2], time[3])

\* The entry of added_stops for one link of the route.
StopOnLink(stops, link) ==
    LET on == {j \in 1..Len(stops) : SectionOf(stops[j][1]) = link}
    IN  IF on = {} THEN None
        ELSE FindObjectByExternalId(stops[CHOOSE j \in on : \A k \in on : j <= k][1])

\* calculate_pt_leg: the route and the stops set on the line.
CalculatePtLeg(pt_line, leg) ==
    [pt_line EXCEPT !.route = leg.Route,
                    !.stops = [k \in 1..Len(leg.Route) |-> StopOnLink(leg.Stops, leg.Route[k])]]

\* The stops of a line that are stops (not None).
BusStopsOf(stops) == {stops[k] : k \in 1..Len(stops)} \ {None}

\* create_pt_line; id is the id of the new line, id + 1 of its timetable.
CreatePtLine(name, leg, id) ==
    LET pt_line == CalculatePtLeg([id |-> id, name |-> name, route |-> <<>>,
                                   stops |-> <<>>, timetables |-> <<>>], leg)
        schedule == [time |-> QTime(0, 0, 0),
                     departureType |-> "eFixed",
                     duration |-> <<23, 59, 59>>,
                     departures |-> <<>>,
                     stopTimes |-> [b \in BusStopsOf(pt_line.stops) |->
                                       [mean |-> 0, deviation |-> 0]]]
        timetable == [id |-> id + 1, name |-> <<"Timetable - ", name>>,
                      schedules |-> <<schedule>>]
    IN  [pt_line EXCEPT !.timetables = <<timetable>>]

AddDepartureFirst(pt_line, time) ==
    [pt_line EXCEPT !.timetables[1].schedules[1].departures =
        << [vehicle |-> BUS_ID, departureTime |-> QTimeFromString(time), meanTime |-> 0] >> \o @]

\* add_departure
AddDeparture(pt_line, time) ==
    [pt_line EXCEPT !.timetables[1].schedules[1].departures =
        Append(@, [vehicle |-> BUS_ID, departureTime |-> QTimeFromString(time),
                   meanTime |-> 0])]

FindByNameNever(ls, name) == 0

\* model.getCatalog().findByName(name): the position of the line, 0 for None.
FindByName(ls, name) ==
    LET found == {k \in 1..Len(ls) : ls[k].name = name}
    IN  IF found = {} THEN 0 ELSE CHOOSE k \in found : \A j \in found : k <= j

LineForRecalc(ls, id, name, leg) ==
    LET k == FindByName(ls, name)
    IN  IF k = 0
            THEN [lines |-> Append(ls, CreatePtLine(name, leg, id)),
                  idx |-> Len(ls) + 1, nextId |-> id + 2]
            ELSE [lines |-> [ls EXCEPT ![k] = CalculatePtLeg(@, leg)],
                  idx |-> k, nextId |-> id]

\* pt_line = findByName(leg_name); if (pt_line == None): pt_line = create_pt_line(...)
LineFor(ls, id, name, leg) ==
    LET k == FindByName(ls, name)
    IN  IF k = 0
            THEN [lines |-> Append(ls, CreatePtLine(name, leg, id)),
                  idx |-> Len(ls) + 1, nextId |-> id + 2]
            ELSE [lines |-> ls, idx |-> k, nextId |-> id]

AtLeastOneStop(leg) == Len(leg.Stops) >= 1

\* The legs the leg loop does not skip: not (len(leg["Stops"]) < 2).
Promotable(leg) == Len(leg.Stops) >= 2

\* The body of the leg loop for one leg: the lines and the next id after.
ProcessOneLeg(ls, id, file, leg) ==
    IF ~Promotable(leg)
        THEN [lines |-> ls, nextId |-> id]
        ELSE LET got == LineFor(ls, id, LegName(file, leg), leg)
             IN  [lines |-> [got.lines EXCEPT ![got.idx] = AddDeparture(@, leg.Stops[1][2])],
                  nextId |-> got.nextId]

\* for leg in route_legs: ..., for the legs of one row.
RECURSIVE ProcessLegs(_, _, _, _)
ProcessLegs(ls, id, file, lgs) ==
    IF lgs = <<>>
        THEN [lines |-> ls, nextId |-> id]
        ELSE LET done == ProcessOneLeg(ls, id, file, Head(lgs))
             IN  ProcessLegs(done.lines, done.nextId, file, Tail(lgs))

\* get_timetable's leg loop over the legs find_route_legs returned, for a
\* row of the file F7.
StitchPromote ==
    /\ spc = "done"
    /\ LET done == ProcessLegs(lines, nextId, F7, legs)
       IN  /\ lines' = done.lines
           /\ nextId' = done.nextId
    /\ spc' = "promoted"
    /\ UNCHANGED <<listing, csv_files, nrows, fi, rowIdx, pc, route_legs, logFile,
                   tripsRead, processedLegs, error_log>>
    /\ UNCHANGED <<sStops, si, route, route_stops, legs, answers>>

NextStitch == StitchStep \/ StitchFinish \/ StitchPromote

\* find_route_legs under every behaviour of the path oracle, followed by the
\* leg loop of get_timetable.
SpecStitch == InitStitch /\ [][NextStitch]_vars

\* --------------------------------------------------------- set_dwell_times
DwellOf(stop_time) ==
    [mean |-> IF stop_time.mean = 0 THEN 20 ELSE stop_time.mean,
     deviation |-> IF stop_time.deviation = 0 THEN 10 ELSE stop_time.deviation]

SetDwellTimes(ls) ==
    [k \in 1..Len(ls) |->
        [ls[k] EXCEPT !.timetables =
            [t \in 1..Len(ls[k].timetables) |->
                [ls[k].timetables[t] EXCEPT !.schedules =
                    [c \in 1..Len(ls[k].timetables[t].schedules) |->
                        [ls[k].timetables[t].schedules[c] EXCEPT !.stopTimes =
                            [b \in DOMAIN @ |-> DwellOf(@[b])]]]]]]]

\* ----------------------------------------------------------- output_errors
OutputErrors(errors) ==
    IF Len(errors) > 1
        THEN [written |-> TRUE, count |-> Len(errors), messages |-> errors]
        ELSE [written |-> FALSE, count |-> 0, messages |-> <<>>]

\* ---------------------------------------------------------- the main script
CsvFileError(csv, e) == [kind |-> "CSV FILE ERROR", file |-> csv, e |-> e]

StitchIdle ==
    /\ sStops = <<>>
    /\ si = 1
    /\ route = <<>>
    /\ route_stops = <<>>
    /\ legs = <<>>
    /\ answers = <<>>
    /\ spc = "idle"

Init ==
    /\ StitchIdle
    /\ listing \in DirListings
    /\ nrows \in [1..Len(CsvFilesOf(listing)) -> 0..MaxRows]
    /\ csv_files = <<>>
    /\ fi = 1
    /\ rowIdx = 0
    /\ pc = "start"
    /\ route_legs = <<>>
    /\ lines = <<>>
    /\ nextId = 1
    /\ error_log = <<>>
    /\ logFile = OutputErrors(<<>>)
    /\ tripsRead = {}
    /\ processedLegs = <<>>

\* Lines 374-388: the csv files of the directory are collected.
Start ==
    /\ pc = "start"
    /\ csv_files' = CsvFilesOf(listing)
    /\ pc' = "main"
    /\ UNCHANGED <<listing, nrows, fi, rowIdx, route_legs, lines, nextId, error_log,
                   logFile, tripsRead, processedLegs>>
    /\ UNCHANGED stitchVars

\* The main loop calls get_timetable, which opens the file and skips the header.
OpenFile ==
    /\ pc = "main"
    /\ fi <= Len(csv_files)
    /\ rowIdx' = 1
    /\ pc' = "rows"
    /\ UNCHANGED <<listing, csv_files, nrows, fi, route_legs, lines, nextId, error_log,
                   logFile, tripsRead, processedLegs>>
    /\ UNCHANGED stitchVars

\* get_timetable reads a well-formed row, up to the leg loop.
ReadRow ==
    /\ pc = "rows"
    /\ rowIdx <= nrows[fi]
    /\ \E row \in RowSet :
         /\ ~ParseRaises(row)
         /\ LET model_stops == MatchStopsInModel(ParseRow(row))
                found == FindRouteLegs(model_stops, error_log)
            IN  IF Len(model_stops) = 0
                    THEN /\ rowIdx' = rowIdx + 1
                         /\ UNCHANGED <<pc, route_legs, error_log>>
                    ELSE /\ route_legs' = found.legs
                         /\ error_log' = found.error_log
                         /\ pc' = "legs"
                         /\ UNCHANGED rowIdx
    /\ tripsRead' = tripsRead \cup {<<fi, rowIdx>>}
    /\ UNCHANGED <<listing, csv_files, nrows, fi, lines, nextId, logFile, processedLegs>>
    /\ UNCHANGED stitchVars

\* get_timetable reads a row it cannot parse: the exception leaves
\* get_timetable and is caught by the main loop, which goes to the next file.
RowRaises ==
    /\ pc = "rows"
    /\ rowIdx <= nrows[fi]
    /\ \E row \in RowSet : ParseRaises(row)
    /\ tripsRead' = tripsRead \cup {<<fi, rowIdx>>}
    /\ error_log' = <<CsvFileError(csv_files[fi], "AttributeError")>> \o error_log
    /\ fi' = fi + 1
    /\ pc' = "main"
    /\ UNCHANGED <<listing, csv_files, nrows, rowIdx, route_legs, lines, nextId, logFile,
                   processedLegs>>
    /\ UNCHANGED stitchVars

\* One iteration of the leg loop of get_timetable.
ProcessLeg ==
    /\ pc = "legs"
    /\ route_legs # <<>>
    /\ LET leg == Head(route_legs)
           done == ProcessOneLeg(lines, nextId, csv_files[fi], leg)
       IN  /\ lines' = done.lines
           /\ nextId' = done.nextId
           /\ processedLegs' = Append(processedLegs,
                                      [file |-> fi, row |-> rowIdx, leg |-> leg])
    /\ route_legs' = Tail(route_legs)
    /\ IF Tail(route_legs) = <<>>
           THEN pc' = "rows" /\ rowIdx' = rowIdx + 1
           ELSE UNCHANGED <<pc, rowIdx>>
    /\ UNCHANGED <<listing, csv_files, nrows, fi, error_log, logFile, tripsRead>>
    /\ UNCHANGED stitchVars

\* The rows of the file are exhausted: get_timetable returns.
EndFile ==
    /\ pc = "rows"
    /\ rowIdx > nrows[fi]
    /\ fi' = fi + 1
    /\ pc' = "main"
    /\ UNCHANGED <<listing, csv_files, nrows, rowIdx, route_legs, lines, nextId, error_log,
                   logFile, tripsRead, processedLegs>>
    /\ UNCHANGED stitchVars

\* After the main loop: set_dwell_times().
SetDwell ==
    /\ pc = "main"
    /\ fi > Len(csv_files)
    /\ lines' = SetDwellTimes(lines)
    /\ pc' = "output"
    /\ UNCHANGED <<listing, csv_files, nrows, fi, rowIdx, route_legs, nextId, error_log,
                   logFile, tripsRead, processedLegs>>
    /\ UNCHANGED stitchVars

\* output_errors(error_log)
WriteLog ==
    /\ pc = "output"
    /\ logFile' = OutputErrors(error_log)
    /\ pc' = "done"
    /\ UNCHANGED <<listing, csv_files, nrows, fi, rowIdx, route_legs, lines, nextId,
                   error_log, tripsRead, processedLegs>>
    /\ UNCHANGED stitchVars

Next ==
    \/ Start
    \/ OpenFile
    \/ ReadRow
    \/ RowRaises
    \/ ProcessLeg
    \/ EndFile
    \/ SetDwell
    \/ WriteLog

Spec == Init /\ [][Next]_vars

\* ------------------------------------------------- properties of the stitcher
\* Consecutive sections of r share a node.
Contiguous(r) == \A k \in 1..(Len(r) - 1) : Adjacent(r[k], r[k + 1])

\* No two consecutive sections of r are equal.
NoAdjDup(r) == \A k \in 1..(Len(r) - 1) : r[k] # r[k + 1]

\* p without its consecutive repeats.
Dedup(p) ==
    LET keep == {k \in 1..Len(p) : k = 1 \/ p[k] # p[k - 1]}
        pos(j) == CHOOSE k \in keep : Cardinality({m \in keep : m < k}) = j - 1
    IN  [j \in 1..Cardinality(keep) |-> p[pos(j)]]

\* C3: in every leg find_route_legs has produced, any two consecutive
\* sections of the route are adjacent in the network, whatever each getPath
\* call did (returned a contiguous path, returned no path, or raised).
C3_LegContiguity == \A k \in 1..Len(legs) : Contiguous(legs[k].Route)

\* The case of C4: three different stops, the first query returns 3 links,
\* the second none.
C4_Case ==
    /\ spc \in {"done", "promoted"}
    /\ Len(sStops) = 3
    /\ Cardinality({sStops[1][1], sStops[2][1], sStops[3][1]}) = 3
    /\ ~answers[1].raised /\ Len(answers[1].path) = 3
    /\ ~answers[2].raised /\ answers[2].path = <<>>

\* C4 as stated: for stops A, B, C with a 3-link path from A to B and no path
\* from B to C, the legs are {route: the 3 links, stops: [A, B]} and
\* {route: [], stops: [B, C]}.
C4_Original ==
    C4_Case => legs = << MakeLeg(answers[1].path, <<sStops[1], sStops[2]>>),
                         MakeLeg(<<>>, <<sStops[2], sStops[3]>>) >>

\* C4 amended: for stops A, B, C with a 3-link path from A to B and no path
\* from B to C, the legs are {route: the 3 links without consecutive repeats,
\* stops: [A, B]} and {route: [], stops: [C]}.
C4_TwoLegs ==
    C4_Case => legs = << MakeLeg(Dedup(answers[1].path), <<sStops[1], sStops[2]>>),
                         MakeLeg(<<>>, <<sStops[3]>>) >>

C4_Witness ==
    /\ C4_Case
    /\ <<sStops[1][1], sStops[2][1], sStops[3][1]>> = <<"A", "B", "C">>
    /\ answers[1].path = <<1, 2, 3>>
    /\ Len(legs) = 2

\* C8: the working route and the route of every finalized leg never hold two
\* consecutive equal sections, whatever paths getPath returned.
C8_NoAdjacentDuplicates ==
    /\ NoAdjDup(route)
    /\ \A k \in 1..Len(legs) : NoAdjDup(legs[k].Route)

\* A path that repeats a section was absorbed, a path starting with the
\* section the route ended with was absorbed, and a leg of 3 or more sections
\* was finalized.
C8_Witness ==
    /\ spc = "done"
    /\ \E k \in 1..Len(answers) : ~answers[k].raised /\ ~NoAdjDup(answers[k].path)
    /\ \E k \in 2..Len(answers) :
         /\ ~answers[k - 1].raised /\ answers[k - 1].path # <<>>
         /\ ~answers[k].raised /\ answers[k].path # <<>>
         /\ answers[k].path[1] = answers[k - 1].path[Len(answers[k - 1].path)]
    /\ \E k \in 1..Len(legs) : Len(legs[k].Route) >= 3

\* C10: every leg with 2 or more stops has a non-empty route, and so has the
\* working buffer as soon as it holds a stop, for any mix of found, empty and
\* failed path queries; hence no line created from the legs has an empty route.
C10_StopsNeedRoute ==
    /\ \A k \in 1..Len(legs) : Len(legs[k].Stops) >= 2 => Len(legs[k].Route) >= 1
    /\ (spc = "loop" /\ Len(route_stops) >= 1) => Len(route) >= 1
    /\ \A i \in 1..Len(lines) : lines[i].route # <<>>

\* A run with a failed query, an empty path and a found path that ended with
\* a leg of 2 or more stops, which became a line, and a leg with an empty route.
C10_Witness ==
    /\ spc = "promoted"
    /\ \E k \in 1..(Len(answers) - 1) : answers[k].raised
    /\ \E k \in 1..Len(answers) : ~answers[k].raised /\ answers[k].path = <<>>
    /\ \E k \in 1..Len(answers) : ~answers[k].raised /\ answers[k].path # <<>>
    /\ \E k \in 1..Len(legs) : Len(legs[k].Stops) >= 2
    /\ \E k \in 1..Len(legs) : legs[k].Route = <<>>
    /\ lines # <<>>

\* ------------------------------------------------- properties of the registry
\* The departures of a line's first schedule.
DeparturesOf(line) == line.timetables[1].schedules[1].departures

\* The positions of processedLegs whose leg has 2 or more stops.
PromotedIdx == {k \in 1..Len(processedLegs) : Len(processedLegs[k].leg.Stops) >= 2}

\* The name get_route_name computes for the leg at position k.
NameAt(k) == LegName(csv_files[processedLegs[k].file], processedLegs[k].leg)

\* C1: a failure while a trip (a data row) is processed abandons that trip
\* only: when the script is done, every data row of every csv file has been
\* read, also the rows after a failing row of the same file.
C1_PerTripIsolation ==
    pc = "done" =>
        \A f \in 1..Len(csv_files) : \A r \in 1..nrows[f] : <<f, r>> \in tripsRead

\* The names of the legs of 2 or more stops processed so far, by position.
PromotedNames == [k \in PromotedIdx |-> NameAt(k)]

\* C2: no two lines share a name; every line has exactly one timetable with
\* exactly one schedule; the number of departures of the schedule is the
\* number of legs with 2 or more stops processed so far that computed the
\* line's name, and every such leg has its line.
C2_NameDedup ==
    LET pn == PromotedNames
    IN  /\ \A i, j \in 1..Len(lines) : lines[i].name = lines[j].name => i = j
        /\ \A i \in 1..Len(lines) :
             /\ Len(lines[i].timetables) = 1
             /\ Len(lines[i].timetables[1].schedules) = 1
             /\ Len(DeparturesOf(lines[i])) =
                    Cardinality({k \in DOMAIN pn : pn[k] = lines[i].name})
        /\ \A k \in DOMAIN pn : \E i \in 1..Len(lines) : lines[i].name = pn[k]

\* Two legs of two different rows of one file, with the same first and last
\* stop, have been processed, and their one line holds two departures.
C2_Witness ==
    \E k1, k2 \in PromotedIdx :
        /\ k1 < k2
        /\ processedLegs[k1].file = processedLegs[k2].file
        /\ processedLegs[k1].row # processedLegs[k2].row
        /\ NameAt(k1) = NameAt(k2)
        /\ Cardinality({i \in 1..Len(lines) : lines[i].name = NameAt(k1)}) = 1
        /\ \E i \in 1..Len(lines) :
             lines[i].name = NameAt(k1) /\ Len(DeparturesOf(lines[i])) = 2

\* C5: a step that processes a leg of 2 or more stops whose name an existing
\* line bears leaves every other line as it is and changes that line only by
\* appending one departure to its schedule: route, stops, timetable and
\* schedule stay as they were.
C5_RouteFixedAtCreation ==
    [][ ( /\ pc = "legs"
          /\ route_legs # <<>>
          /\ Len(Head(route_legs).Stops) >= 2
          /\ \E i \in 1..Len(lines) :
               lines[i].name = LegName(csv_files[fi], Head(route_legs)) )
        => LET leg == Head(route_legs)
               i == CHOOSE i \in 1..Len(lines) : lines[i].name = LegName(csv_files[fi], leg)
           IN  /\ Len(lines') = Len(lines)
               /\ \A j \in 1..Len(lines) : j # i => lines'[j] = lines[j]
               /\ lines'[i] =
                    [lines[i] EXCEPT !.timetables[1].schedules[1].departures =
                        Append(@, [vehicle |-> BUS_ID,
                                   departureTime |-> QTimeFromString(leg.Stops[1][2]),
                                   meanTime |-> 0])]
      ]_vars

\* A line holds 2 or more departures and one of the legs that computed its
\* name has a route other than the line's.
C5_Witness ==
    \E i \in 1..Len(lines) : \E k \in PromotedIdx :
        /\ NameAt(k) = lines[i].name
        /\ processedLegs[k].leg.Route # lines[i].route
        /\ Len(DeparturesOf(lines[i])) >= 2

\* The first-stop visit times, as departure times, of those among the legs
\* named by pn that computed name, in the order they were processed.
RECURSIVE ExpectedTimes(_, _, _)
ExpectedTimes(pn, name, k) ==
    IF k > Len(processedLegs) THEN <<>>
    ELSE IF k \in DOMAIN pn /\ pn[k] = name
        THEN <<QTimeFromString(processedLegs[k].leg.Stops[1][2])>>
                 \o ExpectedTimes(pn, name, k + 1)
        ELSE ExpectedTimes(pn, name, k + 1)

\* C6: at every point of the run the departure times of a line's schedule
\* are, in order, the first-stop visit times of the legs of 2 or more stops
\* that computed the line's name, in the order the legs were processed, which
\* is file order, then row order.
C6_DepartureOrder ==
    LET pn == PromotedNames
    IN  /\ \A i \in 1..Len(lines) :
             [j \in 1..Len(DeparturesOf(lines[i])) |->
                 DeparturesOf(lines[i])[j].departureTime]
                 = ExpectedTimes(pn, lines[i].name, 1)
        /\ \A k \in 1..(Len(processedLegs) - 1) :
             \/ processedLegs[k].file < processedLegs[k + 1].file
             \/ /\ processedLegs[k].file = processedLegs[k + 1].file
                /\ processedLegs[k].row <= processedLegs[k + 1].row

\* A line whose departures are not in time order.
C6_Witness ==
    \E i \in 1..Len(lines) :
        /\ Len(DeparturesOf(lines[i])) >= 2
        /\ DeparturesOf(lines[i])[1].departureTime > DeparturesOf(lines[i])[2].departureTime

RECURSIVE TotalDepartures(_)
TotalDepartures(ls) ==
    IF ls = <<>> THEN 0 ELSE Len(DeparturesOf(Head(ls))) + TotalDepartures(Tail(ls))

\* C7: every line was created from a processed leg of 2 or more stops (the
\* first such leg that computed its name gave it its route), and the legs of
\* fewer than 2 stops added no departure: the departures of all lines are as
\* many as the processed legs of 2 or more stops.
C7_MinLegSize ==
    LET pn == PromotedNames
    IN  /\ \A i \in 1..Len(lines) :
             \E k \in DOMAIN pn :
                /\ pn[k] = lines[i].name
                /\ \A m \in DOMAIN pn : pn[m] = lines[i].name => k <= m
                /\ lines[i].route = processedLegs[k].leg.Route
        /\ TotalDepartures(lines) = Cardinality(PromotedIdx)

\* The run is over, a leg of fewer than 2 stops was processed and a line exists.
C7_Witness ==
    /\ pc = "done"
    /\ lines # <<>>
    /\ \E k \in 1..Len(processedLegs) : Len(processedLegs[k].leg.Stops) < 2

\* C9: the error log never holds the same path-length warning twice.
C9_WarningDedup ==
    \A i, j \in 1..Len(error_log) :
        ( /\ i < j
          /\ error_log[i].kind = "PATH LENGTH WARNING"
          /\ error_log[j].kind = "PATH LENGTH WARNING" )
        => error_log[i] # error_log[j]

\* A trip of the first file and a trip of the second file both stitched a
\* path of more than 20 sections between the same stops, the error of the
\* first file was inserted in between, and the log holds the warning once.
C9_Witness ==
    /\ Len(error_log) = 2
    /\ error_log[1].kind = "CSV FILE ERROR"
    /\ error_log[1].file = csv_files[1]
    /\ error_log[2].kind = "PATH LENGTH WARNING"
    /\ \E k1, k2 \in 1..Len(processedLegs) :
         /\ processedLegs[k1].file = 1
         /\ processedLegs[k2].file = 2
         /\ processedLegs[k1].leg = processedLegs[k2].leg
         /\ Len(processedLegs[k1].leg.Route) > PathLenWarn

====
